---- MODULE Spec2Model ----
(***************************************************************************)
(* PageRank (pagerank.py): the transition model, the sampling estimator    *)
(* and the iterative estimator.                                            *)
(*                                                                         *)
(* Numbers.  A probability computed by transition_model is an exact        *)
(* rational <<num, den>> in lowest terms.  sample_pagerank rounds its      *)
(* cumulative weights to 4 decimals itself; they are integers in units of  *)
(* 1/10000.  A draw of random() is an integer in units of 1/20000, so      *)
(* that a draw can fall strictly between two 4-decimal weights.            *)
(* The floats of iterate_pagerank are fixed-point integers in units of     *)
(* 1/Unit, every operation rounding to the nearest unit.                   *)
(*                                                                         *)
(* Pages are 1..N; the corpus dict iterates its keys in that order.        *)
(***************************************************************************)
EXTENDS Integers, Sequences, FiniteSets, TLC

VARIABLES
    corpus,          \* the graph: page -> set of pages it links to
    set_order,       \* iteration order of a Python set in this process
    damping_factor,  \* the caller's damping argument (a rational)
    n,               \* the caller's sample-count argument
    tm_pc,           \* transition_model: "idle" | "returned"
    tm_page,         \* transition_model: its page argument
    page_prob,       \* transition_model: the dict it returns, as <<site, prob>> pairs
    sp_pc,           \* sample_pagerank: "start" | "loop" | "returned" | "IndexError"
    site_weight,     \* sample_pagerank: the sorted cumulative-weight table
    ranks,           \* sample_pagerank: site -> visit count, then site -> probability
    count,           \* sample_pagerank: the loop counter
    sample,          \* sample_pagerank: the latest draw (-1 before the first)
    draw_hits,       \* sample_pagerank: what the latest draw appended to `hits`
                     \* (`samples` and `hits` are only ever appended to)
    it_pc,           \* iterate_pagerank: "start" | "loop" | "returned" | "ZeroDivisionError"
    page_rank,       \* iterate_pagerank: page -> rank
    sum_links,       \* iterate_pagerank: page -> accumulator
    change,          \* iterate_pagerank: list of per-page changes
    rank_change      \* iterate_pagerank: the loop's convergence measure

vars == <<corpus, set_order, damping_factor, n, tm_pc, tm_page, page_prob,
          sp_pc, site_weight, ranks, count, sample, draw_hits,
          it_pc, page_rank, sum_links, change, rank_change>>

tm_vars == <<tm_pc, tm_page, page_prob>>
sp_vars == <<sp_pc, site_weight, ranks, count, sample, draw_hits>>
it_vars == <<it_pc, page_rank, sum_links, change, rank_change>>
in_vars == <<corpus, set_order, damping_factor, n>>

---------------------------------------------------------------------------
(* Bounds of the model *)

\* Largest number of pages of a corpus.
MaxPages == 3

\* Largest sample-count argument n a caller passes.
MaxN == 3

\* The module constant SAMPLES (pagerank.py line 8, where it is 10000),
\* scaled down so that the walk is explored to its end.
SAMPLES == 3

\* Damping arguments a caller passes, each in (0,1).
DampingArgs == { <<1, 2>>, <<17, 20>> }

\* Values of random(), in units of 1/20000: 0.00005, 0.25005, 0.70005,
\* 0.95005 and 0.99995.  random() yields one of 2^53 floats, so a draw is
\* taken strictly between two 4-decimal numbers, never on a table weight.
Draws == { 1, 5001, 14001, 19001, 19999 }

---------------------------------------------------------------------------
(* Exact rationals *)

RECURSIVE GCD(_, _)
GCD(a, b) == IF b = 0 THEN a ELSE GCD(b, a % b)

Abs(x) == IF x < 0 THEN -x ELSE x

\* num/den in lowest terms, den > 0.
Rat(num, den) ==
    LET g == GCD(Abs(num), Abs(den))
        s == IF den < 0 THEN -1 ELSE 1
    IN  << (s * num) \div g, (s * den) \div g >>

One == <<1, 1>>
Zero == <<0, 1>>

RAdd(a, b) == Rat(a[1] * b[2] + b[1] * a[2], a[2] * b[2])
RSub(a, b) == Rat(a[1] * b[2] - b[1] * a[2], a[2] * b[2])
RDivInt(a, k) == Rat(a[1], a[2] * k)

\* DAMPING = 0.85
DAMPING == <<17, 20>>

---------------------------------------------------------------------------
(* Python containers *)

\* The elements of a set of pages in ascending order.
RECURSIVE Ascending(_)
Ascending(S) ==
    IF S = {} THEN <<>>
    ELSE LET m == CHOOSE x \in S : \A y \in S : x <= y
         IN  <<m>> \o Ascending(S \ {m})

Reverse(s) == [i \in 1..Len(s) |-> s[Len(s) + 1 - i]]

\* `for site in corpus[page]`: the order in which a set yields its elements
\* is fixed within a process and arbitrary across processes.
SetIter(S) == IF set_order = "asc" THEN Ascending(S) ELSE Reverse(Ascending(S))

\* `for site in corpus`: a dict yields its keys in insertion order; the
\* pages are numbered 1..N in that order.
DictIter(c) == [i \in 1..Cardinality(DOMAIN c) |-> i]

\* d.update({k : v}) on a dict kept as a sequence of <<key, value>> pairs:
\* an existing key keeps its place, a new key goes last.
DictUpdate(d, k, v) ==
    IF \E i \in 1..Len(d) : d[i][1] = k
    THEN [i \in 1..Len(d) |-> IF d[i][1] = k THEN <<k, v>> ELSE d[i]]
    ELSE Append(d, <<k, v>>)

RECURSIVE UpdateAll(_, _, _)
UpdateAll(d, keys, v) ==
    IF keys = <<>> THEN d
    ELSE UpdateAll(DictUpdate(d, Head(keys), v), Tail(keys), v)

Keys(d) == { d[i][1] : i \in 1..Len(d) }
Get(d, k) == LET i == CHOOSE j \in 1..Len(d) : d[j][1] = k IN d[i][2]

RECURSIVE RSumSeq(_)
RSumSeq(d) == IF d = <<>> THEN Zero ELSE RAdd(Head(d)[2], RSumSeq(Tail(d)))

---------------------------------------------------------------------------
(* transition_model *)

\* total_prob of a page with outgoing links (lines 62-64).
LinkedProb(c, page) ==
    LET link_prob == RDivInt(DAMPING, Cardinality(c[page]))
        random_prob == RDivInt(RSub(One, DAMPING), Cardinality(DOMAIN c))
    IN  RAdd(link_prob, random_prob)

\* random_prob of a page with outgoing links (line 63).
RandomProb(c) == RDivInt(RSub(One, DAMPING), Cardinality(DOMAIN c))

DanglingProbDamped(c) == RDivInt(RSub(One, DAMPING), Cardinality(DOMAIN c))

\* random_prob of a page without outgoing links (line 74).
DanglingProb(c) == RDivInt(One, Cardinality(DOMAIN c))

\* The parameter damping_factor is never read: both branches use DAMPING.
transition_model(c, page, damping) ==
    IF Cardinality(c[page]) > 0
    THEN LET linked == UpdateAll(<<>>, SetIter(c[page]), LinkedProb(c, page))
             others == SelectSeq(DictIter(c), LAMBDA site : site \notin c[page])
         IN  UpdateAll(linked, others, RandomProb(c))
    ELSE UpdateAll(<<>>, DictIter(c), DanglingProb(c))

---------------------------------------------------------------------------
(* Graphs *)

Pages(k) == 1..k

\* crawl() removes self-links and links to pages outside the corpus.
Graphs ==
    UNION { { c \in [Pages(k) -> SUBSET Pages(k)] : \A p \in Pages(k) : p \notin c[p] }
            : k \in 0..MaxPages }

NumPages == Cardinality(DOMAIN corpus)

InitInputs ==
    /\ corpus \in Graphs
    /\ set_order \in {"asc", "desc"}
    /\ damping_factor \in DampingArgs
    /\ n \in 1..MaxN

InitIdle ==
    /\ tm_pc = "idle" /\ tm_page = 0 /\ page_prob = <<>>
    /\ sp_pc = "start" /\ site_weight = <<>> /\ ranks = <<>> /\ count = 0
    /\ sample = -1 /\ draw_hits = <<>>
    /\ it_pc = "start" /\ page_rank = <<>> /\ sum_links = <<>> /\ change = <<>>
    /\ rank_change = 0

---------------------------------------------------------------------------
(* A call of transition_model(corpus, page, damping_factor) *)

CallTransitionModel ==
    /\ tm_pc = "idle"
    /\ \E page \in DOMAIN corpus :
        /\ tm_page' = page
        /\ page_prob' = transition_model(corpus, page, damping_factor)
    /\ tm_pc' = "returned"
    /\ UNCHANGED <<in_vars, sp_vars, it_vars>>

\* transition_model is called with a graph, a page and a damping; n is not
\* an argument of it.
InitTM ==
    /\ corpus \in Graphs
    /\ set_order \in {"asc", "desc"}
    /\ damping_factor \in DampingArgs
    /\ n = 1
    /\ InitIdle
NextTM == CallTransitionModel
SpecTM == InitTM /\ [][NextTM]_vars

---------------------------------------------------------------------------
(* sample_pagerank *)

\* round(x, 4) of a rational x, in units of 1/10000 (ties to even).
Round4(r) ==
    LET t == r[1] * 10000
        q == t \div r[2]
        rem == t % r[2]
    IN  IF 2 * rem < r[2] THEN q
        ELSE IF 2 * rem > r[2] THEN q + 1
        ELSE IF q % 2 = 0 THEN q ELSE q + 1

\* Lines 98-102 and 129-133: each weight becomes the rounded running total.
RECURSIVE Cumulate(_, _)
Cumulate(d, x) ==
    IF d = <<>> THEN <<>>
    ELSE LET w == Round4(RAdd(Head(d)[2], Rat(x, 10000)))
         IN  << <<Head(d)[1], w>> >> \o Cumulate(Tail(d), w)

\* sorted(next_prob1, key=lambda x: x[1]): a stable sort by weight.
RECURSIVE InsertByWeight(_, _)
InsertByWeight(s, e) ==
    IF s = <<>> THEN <<e>>
    ELSE IF e[2] < s[Len(s)][2]
         THEN Append(InsertByWeight(SubSeq(s, 1, Len(s) - 1), e), s[Len(s)])
         ELSE Append(s, e)

RECURSIVE SortByWeight(_)
SortByWeight(s) ==
    IF s = <<>> THEN <<>>
    ELSE InsertByWeight(SortByWeight(SubSeq(s, 1, Len(s) - 1)), s[Len(s)])

\* The table built from transition_model's answer (lines 95-106, 128-137 and
\* 146-155; in the i == 0 branch the table is rebuilt after every site and
\* the last rebuild, of the finished weights, is the one that stays).
WeightTable(c, page, damping) ==
    SortByWeight(Cumulate(transition_model(c, page, damping), 0))

\* Lines 121-157: the scan of one draw over `for i in range(len(site_weight))`;
\* the range is fixed when the scan starts, site_weight is read anew at
\* every i.  st holds site_weight, ranks, count and the hits of this draw.
RECURSIVE Scan(_, _, _, _)
Scan(i, len, st, smp) ==
    IF i > len THEN st
    ELSE LET sw == st.site_weight
             isHit == /\ 2 * sw[i][2] > smp
                      /\ (i = 1 \/ smp > 2 * sw[i - 1][2])
         IN  IF isHit
             THEN LET hit == sw[i][1]
                  IN  Scan(i + 1, len,
                           [site_weight |-> WeightTable(corpus, hit, DAMPING),
                            ranks |-> [st.ranks EXCEPT ![hit] = @ + 1],
                            count |-> st.count + 1,
                            hits |-> Append(st.hits, hit)],
                           smp)
             ELSE Scan(i + 1, len, st, smp)

\* Lines 89-92 on an empty corpus: choice([]) raises IndexError.
SampleEmpty ==
    /\ sp_pc = "start"
    /\ DOMAIN corpus = {}
    /\ sp_pc' = "IndexError"
    /\ UNCHANGED <<site_weight, ranks, count, sample, draw_hits>>
    /\ UNCHANGED <<in_vars, tm_vars, it_vars>>

\* Lines 89-117.
SampleStart ==
    /\ sp_pc = "start"
    /\ \E page1 \in DOMAIN corpus :
        /\ site_weight' = WeightTable(corpus, page1, damping_factor)
        /\ ranks' = [site \in Keys(transition_model(corpus, page1, damping_factor)) |-> 0]
    /\ count' = 0
    /\ sp_pc' = "loop"
    /\ UNCHANGED <<sample, draw_hits>>
    /\ UNCHANGED <<in_vars, tm_vars, it_vars>>

\* Lines 118-157: one pass of `while count < SAMPLES`.
Draw ==
    /\ sp_pc = "loop"
    /\ count < SAMPLES
    /\ \E smp \in Draws :
        LET st == Scan(1, Len(site_weight),
                       [site_weight |-> site_weight, ranks |-> ranks,
                        count |-> count, hits |-> <<>>], smp)
        IN  /\ sample' = smp
            /\ site_weight' = st.site_weight
            /\ ranks' = st.ranks
            /\ count' = st.count
            /\ draw_hits' = st.hits
    /\ UNCHANGED sp_pc
    /\ UNCHANGED <<in_vars, tm_vars, it_vars>>

\* Lines 159-163: the loop is over, every count is divided by SAMPLES.
SampleReturn ==
    /\ sp_pc = "loop"
    /\ ~(count < SAMPLES)
    /\ ranks' = [site \in DOMAIN ranks |-> Rat(ranks[site], SAMPLES)]
    /\ sp_pc' = "returned"
    /\ UNCHANGED <<site_weight, count, sample, draw_hits>>
    /\ UNCHANGED <<in_vars, tm_vars, it_vars>>

InitSample == InitInputs /\ InitIdle
NextSample == SampleEmpty \/ SampleStart \/ Draw \/ SampleReturn
SpecSample == InitSample /\ [][NextSample]_vars

---------------------------------------------------------------------------
(* iterate_pagerank *)

\* One, in the fixed-point units of the floats of iterate_pagerank.
Unit == 10^6

\* A rational constant as a float.
Fix(r) == (2 * r[1] * Unit + r[2]) \div (2 * r[2])

\* x / k for a float x and an int k.
FDivInt(x, k) == (2 * x + k) \div (2 * k)

\* r * x for a rational constant r and a float x.
FMul(r, x) == (2 * r[1] * x + r[2]) \div (2 * r[2])

\* The `.001` of `while rank_change > .001`.
Threshold == Fix(<<1, 1000>>)

\* Line 180: num_links[site].
num_links(site) == Cardinality(corpus[site])

\* Lines 197-199 for one page: the accumulator after the sites from the
\* k-th on, in the order of `for site in corpus`.
RECURSIVE AddIncoming(_, _, _, _)
AddIncoming(acc, page, k, rank) ==
    IF k > NumPages THEN acc
    ELSE AddIncoming(IF page \in corpus[DictIter(corpus)[k]]
                     THEN acc + FDivInt(rank[DictIter(corpus)[k]],
                                        num_links(DictIter(corpus)[k]))
                     ELSE acc,
                     page, k + 1, rank)

\* The float 1 - DAMPING of line 202.
OneMinusDamping == Fix(RSub(One, DAMPING))

\* Lines 201-202: the damped accumulator plus the teleport share.
Damped(s) == FDivInt(OneMinusDamping, NumPages) + FMul(DAMPING, s)

ListMaxLast(l) == l[Len(l)]

\* max(change), line 206.
ListMax(l) ==
    LET elems == { l[i] : i \in 1..Len(l) }
    IN  CHOOSE m \in elems : \A x \in elems : x <= m

SetChangeKeepLargest(l, i, v) == [l EXCEPT ![i] = IF v > @ THEN v ELSE @]

\* change[i] = ..., line 205.
SetChange(l, i, v) == [l EXCEPT ![i] = v]

\* Lines 204-208: the third loop of a sweep, from index i on, given the
\* values of change, rank_change, page_rank and sum_links on entry.  Each
\* one-element set names a value the loop body assigns.
RECURSIVE Commit(_, _, _, _, _)
Commit(i, ch, rc, pr, sl) ==
    IF i > NumPages
    THEN [change |-> ch, rank_change |-> rc, page_rank |-> pr, sum_links |-> sl]
    ELSE CHOOSE last \in
             { Commit(i + 1, c, ListMax(c), p, s) :
                 c \in {SetChange(ch, i, Abs(pr[DictIter(corpus)[i]]
                                              - sl[DictIter(corpus)[i]]))},
                 p \in {[pr EXCEPT ![DictIter(corpus)[i]] = sl[DictIter(corpus)[i]]]},
                 s \in {[sl EXCEPT ![DictIter(corpus)[i]] = 0]} } : TRUE

\* Lines 175-182 on an empty corpus: 1 / len(pages) raises ZeroDivisionError.
IterEmpty ==
    /\ it_pc = "start"
    /\ DOMAIN corpus = {}
    /\ it_pc' = "ZeroDivisionError"
    /\ UNCHANGED <<page_rank, sum_links, change, rank_change>>
    /\ UNCHANGED <<in_vars, tm_vars, sp_vars>>

\* Lines 175-194.
IterStart ==
    /\ it_pc = "start"
    /\ DOMAIN corpus # {}
    /\ page_rank' = [page \in DOMAIN corpus |-> FDivInt(Fix(One), NumPages)]
    /\ sum_links' = [page \in DOMAIN corpus |-> 0]
    /\ change' = [i \in 1..NumPages |-> 0]
    /\ rank_change' = Fix(One)
    /\ it_pc' = "loop"
    /\ UNCHANGED <<in_vars, tm_vars, sp_vars>>

\* Lines 196-202: the first two loops of a sweep, run on the current state.
DampedSums ==
    [page \in DOMAIN corpus |->
        Damped(AddIncoming(sum_links[page], page, 1, page_rank))]

\* Lines 195-208: one pass of `while rank_change > .001`, a full sweep.
Sweep ==
    /\ it_pc = "loop"
    /\ rank_change > Threshold
    /\ \E damped \in {DampedSums} :
       \E st \in {Commit(1, change, rank_change, page_rank, damped)} :
        /\ change' = st.change
        /\ rank_change' = st.rank_change
        /\ page_rank' = st.page_rank
        /\ sum_links' = st.sum_links
    /\ UNCHANGED it_pc
    /\ UNCHANGED <<in_vars, tm_vars, sp_vars>>

\* Line 210: the loop is over.
IterReturn ==
    /\ it_pc = "loop"
    /\ ~(rank_change > Threshold)
    /\ it_pc' = "returned"
    /\ UNCHANGED <<page_rank, sum_links, change, rank_change>>
    /\ UNCHANGED <<in_vars, tm_vars, sp_vars>>

\* iterate_pagerank reads neither n nor the order of a set.
InitIter ==
    /\ corpus \in Graphs
    /\ set_order = "asc"
    /\ damping_factor \in DampingArgs
    /\ n = 1
    /\ InitIdle
NextIter == IterEmpty \/ IterStart \/ Sweep \/ IterReturn
SpecIter == InitIter /\ [][NextIter]_vars

\* The loop is sequential code: a step that can be taken is taken.
FairSpecIter == SpecIter /\ WF_vars(NextIter)

---------------------------------------------------------------------------
(* Properties of transition_model (SpecTM) *)

\* The probability the contract gives a site, for the caller's damping.
ContractProb(site, page, damping) ==
    LET random_prob == RDivInt(RSub(One, damping), NumPages)
    IN  IF site \in corpus[page]
        THEN RAdd(RDivInt(damping, Cardinality(corpus[page])), random_prob)
        ELSE random_prob

\* C1: for a page with L > 0 links and the caller's damping d, every linked
\* page gets d/L + (1 - d)/N and every other page, the page itself
\* included, gets (1 - d)/N.
C1_LinkedPageProbability ==
    (tm_pc = "returned" /\ corpus[tm_page] # {}) =>
        /\ Keys(page_prob) = DOMAIN corpus
        /\ \A site \in DOMAIN corpus :
              Get(page_prob, site) = ContractProb(site, tm_page, damping_factor)

\* C2: for a dangling page the returned distribution has exactly one entry
\* for every page of the graph, the dangling page included, each entry is
\* 1/N, and the entries sum to 1.
C2_DanglingUniform ==
    (tm_pc = "returned" /\ corpus[tm_page] = {}) =>
        /\ Keys(page_prob) = DOMAIN corpus
        /\ Len(page_prob) = NumPages
        /\ \A i \in 1..Len(page_prob) : page_prob[i][2] = Rat(1, NumPages)
        /\ RSumSeq(page_prob) = One

\* A dangling page of a three-page graph that other pages link to.
C2_Witness ==
    /\ tm_pc = "returned"
    /\ corpus[tm_page] = {}
    /\ NumPages = 3
    /\ \A q \in DOMAIN corpus \ {tm_page} : corpus[q] = {tm_page}

---------------------------------------------------------------------------
(* Properties of sample_pagerank (SpecSample) *)

RECURSIVE RSumOver(_, _)
RSumOver(f, S) ==
    IF S = {} THEN Zero
    ELSE LET x == CHOOSE y \in S : TRUE
         IN  RAdd(f[x], RSumOver(f, S \ {x}))

\* C3: the distribution sample_pagerank returns sums to exactly 1.
C3_SampleSumsToOne ==
    sp_pc = "returned" => RSumOver(ranks, DOMAIN ranks) = One

\* C9: the sample count is the argument n.  The loop goes on while fewer
\* than n samples are recorded, ends once n are, and every returned value
\* is the page's visit counter divided by n.
C9_SampleCountFromArgument ==
    [][ sp_pc = "loop" =>
          /\ (count < n => sp_pc' = "loop")
          /\ (count >= n => sp_pc' = "returned")
          /\ (sp_pc' = "returned" =>
                \A site \in DOMAIN ranks : ranks'[site] = Rat(ranks[site], n)) ]_vars

\* The entries of a table whose cumulative weight exceeds a draw.
Exceeding(table, smp) == { i \in 1..Len(table) : 2 * table[i][2] > smp }

\* C10: a draw selects exactly one page, the first of the current table whose
\* cumulative weight exceeds the draw; that page is counted once and becomes
\* the current page, and the table is replaced by that page's table only.
C10_OneSelectionPerDraw ==
    [][ (sp_pc = "loop" /\ sp_pc' = "loop") =>
          LET over == Exceeding(site_weight, sample')
          IN  /\ over # {}
              /\ LET first == CHOOSE i \in over : \A j \in over : i <= j
                     hit == site_weight[first][1]
                 IN  /\ draw_hits' = <<hit>>
                     /\ ranks' = [ranks EXCEPT ![hit] = @ + 1]
                     /\ count' = count + 1
                     /\ site_weight' = WeightTable(corpus, hit, DAMPING) ]_vars

\* C8: on a graph with zero pages both estimators fail with InvalidGraph and
\* return no ranking.
C8_EmptyGraphInvalidGraph ==
    DOMAIN corpus = {} =>
        /\ sp_pc \in {"start", "InvalidGraph"}
        /\ it_pc \in {"start", "InvalidGraph"}
        /\ ranks = <<>>
        /\ page_rank = <<>>

---------------------------------------------------------------------------
(* Properties of iterate_pagerank (SpecIter, FairSpecIter) *)

RECURSIVE SumOver(_, _)
SumOver(f, S) ==
    IF S = {} THEN 0
    ELSE LET x == CHOOSE y \in S : TRUE
         IN  f[x] + SumOver(f, S \ {x})

\* What the rounding of a sweep can add to or take from the sum of the ranks:
\* 1/10000.
SumTolerance == Unit \div 10000

\* C4: while iterate_pagerank sweeps and when it returns, every rank is
\* non-negative and the ranks sum to 1.
C4_IterateSumsToOne ==
    it_pc \in {"loop", "returned"} =>
        /\ \A page \in DOMAIN page_rank : page_rank[page] >= 0
        /\ Abs(SumOver(page_rank, DOMAIN page_rank) - Unit) <= SumTolerance

\* The update rule of the contract, for the caller's damping.
ContractRank(page, old, damping) ==
    LET linking == { q \in DOMAIN corpus : page \in corpus[q] }
        share == [q \in linking |-> FDivInt(old[q], Cardinality(corpus[q]))]
    IN  Fix(RDivInt(RSub(One, damping), NumPages))
          + FMul(damping, SumOver(share, linking))

\* C5: the ranks start at 1/N, and a sweep sets every page's rank to
\* (1 - d)/N + d * (sum over the pages Q linking to it of old[Q]/outdegree(Q))
\* for the caller's damping d and the ranks old of the previous sweep.
C5_UpdateRule ==
    [][ /\ (it_pc = "start" /\ it_pc' = "loop") =>
              \A page \in DOMAIN corpus :
                  page_rank'[page] = Fix(RDivInt(One, NumPages))
        /\ (it_pc = "loop" /\ it_pc' = "loop") =>
              \A page \in DOMAIN corpus :
                  page_rank'[page] = ContractRank(page, page_rank, damping_factor)
      ]_vars

\* The largest change of a rank between two rank maps.
MaxAbsChange(old, new) ==
    LET d == { Abs(old[p] - new[p]) : p \in DOMAIN old }
    IN  CHOOSE m \in d : \A x \in d : x <= m

\* C6: a sweep runs only while the measure is above 0.001 and leaves as the
\* measure the largest change of any page in that sweep; the function
\* returns, with the ranks of that sweep, exactly when the measure is at
\* most 0.001, and runs no sweep then.
C6_StopsAtFirstConvergedSweep ==
    [][ it_pc = "loop" =>
          /\ (it_pc' = "loop" =>
                /\ rank_change > Threshold
                /\ rank_change' = MaxAbsChange(page_rank, page_rank'))
          /\ (it_pc' = "returned" =>
                /\ rank_change <= Threshold
                /\ page_rank' = page_rank)
          /\ (rank_change <= Threshold => it_pc' = "returned") ]_vars

\* Returned after a last sweep that still moved a rank, by at most 0.001,
\* with a rank more than 0.001 away from 1/N: more than one sweep ran.
C6_Witness ==
    /\ it_pc = "returned"
    /\ rank_change > 0
    /\ rank_change <= Threshold
    /\ \E page \in DOMAIN page_rank :
          Abs(page_rank[page] - Fix(RDivInt(One, NumPages))) > Threshold

\* C7: on a graph with at least one page iterate_pagerank does not sweep
\* forever: it returns (the code has no other way out of the loop; a
\* ConvergenceFailure would be one).
C7_IterateTerminates ==
    (it_pc = "start" /\ DOMAIN corpus # {})
        ~> (it_pc \in {"returned", "ConvergenceFailure"})

\* Returned on a graph with a dangling page that another page links to.
C7_Witness ==
    /\ it_pc = "returned"
    /\ \E p \in DOMAIN corpus, q \in DOMAIN corpus : corpus[p] = {} /\ p \in corpus[q]
    /\ NumPages = 3

====
